---- MODULE Spec2Model ----
(***************************************************************************)
(* AttendSys REST API: the attendance routes (check-in, check-out,        *)
(* mark-absent, listing) and the employee routes, over the hosted store's *)
(* tables organizations, employees, profiles and attendance_records.      *)
(*                                                                         *)
(* Every await on the store is one atomic step of a handler; a handler    *)
(* that reads and then writes is two steps, and two requests may          *)
(* interleave between them.                                                *)
(***************************************************************************)
EXTENDS Integers, FiniteSets, Sequences, TLC

\* null / undefined / a missing column.  Falsy in the handlers' tests
\* (if (existing.check_out), if (req.user.organization_id)), as 0 is.
NULL == 0

\* ---------------------------------------------------------------- bounds
MaxTime == 2          \* timestamps a caller can supply, or the clock can show
MaxDup == 2           \* rows the id sequence can hand out per (employee, date)
MaxEmpId == 3         \* employees ids the store hands out

Slots == {"r1", "r2"}            \* requests in flight at once
Times == 1..MaxTime
Today == 1                       \* new Date().toISOString().split('T')[0]
Dates == {1, 2}                  \* Today and one other day (POST /absent date)
OrgIds == {1, 2}
OrgNames == {"a", "b"}           \* organizations.name
UserIds == {"admin", "mgr", "u1"}         \* an identity's id, also its email
NoUser == "none"                          \* employees.user_id IS NULL
Roles == {"admin", "manager", "employee"}

VARIABLES
    organizations,       \* rows of table organizations
    nextOrgId,           \* the organizations id sequence
    employees,           \* rows of table employees
    profiles,            \* table profiles: user id -> [role, organization_id]
    attendance_records,  \* rows of table attendance_records
    nextEmpId,           \* the employees id sequence
    reqs,                \* the attendance requests in flight, per slot
    updates,             \* history: record id -> number of UPDATEs it received
    last,                \* the last response of an employee-route request
    tokens               \* the bearer tokens that clients hold from their logins

vars == <<organizations, nextOrgId, employees, profiles, attendance_records,
          nextEmpId, reqs, updates, last, tokens>>

storeVars == <<organizations, nextOrgId, employees, profiles,
               attendance_records, nextEmpId>>

\* ------------------------------------------------------- store primitives

\* A nullable row (data: row | null) is a set of at most one row.
NoRow == {}

\* supabase .single(): the row when exactly one matches, else data = null
Single(rows) ==
    IF Cardinality(rows) = 1 THEN rows ELSE NoRow

\* .eq('employee_id', e).eq('date', d) on attendance_records
RecordsFor(e, d) ==
    {r \in attendance_records : r.employee_id = e /\ r.date = d}

\* .select('id, check_in, check_out')
ProjectInOut(rows) ==
    {[id |-> r.id, check_in |-> r.check_in, check_out |-> r.check_out] :
        r \in rows}

\* .select('id, check_in, check_out, is_absent')
ProjectAbsent(rows) ==
    {[id |-> r.id, check_in |-> r.check_in, check_out |-> r.check_out,
      is_absent |-> r.is_absent] : r \in rows}

\* The store's UNIQUE (employee_id, date) on attendance_records without the
\* constraint: nothing is rejected.
NoUniqueConstraint(e, d) == FALSE

\* The store's UNIQUE (employee_id, date) on attendance_records.
UniqueViolation(e, d) == RecordsFor(e, d) # {}

\* the employee_id values of the requests modelled: the employees that have a row
EmployeeIds == {emp.id : emp \in employees}

\* attendance_records.employee_id REFERENCES employees(id)
ForeignKeyViolation(e) == e \notin EmployeeIds

\* as InsertError, but only the uniqueness of the key is enforced
InsertErrorUniqueOnly(e, d) == UniqueViolation(e, d)

\* INSERT INTO attendance_records: the error the store answers with, if any
InsertError(e, d) == UniqueViolation(e, d) \/ ForeignKeyViolation(e)

\* The id the store gives an inserted row (.insert(...).select()).  Ids are
\* unique and never reused; no handler depends on which number a row gets,
\* so the sequence is modelled per (employee_id, date): the first free id of
\* that key's block.  NULL when the block is used up.
RecIds == 1..(MaxEmpId * 2 * MaxDup)

IdBlock(e, d) ==
    {((e - 1) * 2 + (d - 1)) * MaxDup + k : k \in 1..MaxDup}

NextRecId(e, d) ==
    LET free == {i \in IdBlock(e, d) : \A r \in attendance_records : r.id # i}
    IN  IF free = {} THEN NULL ELSE CHOOSE i \in free : \A j \in free : i <= j

NewRecord(id, e, d, ci, absent) ==
    [id |-> id, employee_id |-> e, date |-> d, check_in |-> ci,
     check_out |-> NULL, is_absent |-> absent]

\* The readings of the server clock (new Date()) a request is tried with: any
\* when the handler reads it, one when the request supplies its timestamp
\* and the clock goes unread.
ClockWhen(ts) == IF ts = NULL THEN Times ELSE {MaxTime}

Idle == [pc |-> "idle"]

\* A slot takes a new request when it holds none.
Free(s) == reqs[s].pc = "idle"

\* A request that has been answered.  The slot keeps the status; the body
\* of the answer is the reply's record (CheckInReply, CheckOutReply,
\* MarkAbsentReply) or the row the write returned.
Response(op, status) == [pc |-> "done", op |-> op, status |-> status]

\* What a handler answers after its read, or Proceed when it goes on to write.
Proceed == NULL
Reply(status, record) == [status |-> status, record |-> record]

\* --------------------------------------------------- identity and role gate

\* auth middleware, lines 66-89: the bearer token of user u is verified by
\* the identity provider and the profile row gives role and organization;
\* no identity (401) when the user has no profile.
Authenticate(u) ==
    {[id |-> p.id, role |-> p.role, organization_id |-> p.organization_id] :
        p \in Single({q \in profiles : q.id = u})}

\* as RoleGuardReply, but only the role employee is turned away
RoleGuardReplyStaff(user, allowedRoles) ==
    IF user = NoRow THEN [status |-> 401]
    ELSE IF \E x \in user : x.role = "employee"
    THEN [status |-> 403, required |-> allowedRoles, yourRole |-> "employee"]
    ELSE [status |-> Proceed]

\* roleGuard: 401 without an identity; 403, naming the allowed roles and the
\* caller's role, when the role is not among them; else next()
RoleGuardReply(user, allowedRoles) ==
    IF user = NoRow THEN [status |-> 401]
    ELSE IF \E x \in user : x.role \notin allowedRoles
    THEN [status |-> 403, required |-> allowedRoles,
          yourRole |-> (CHOOSE x \in user : TRUE).role]
    ELSE [status |-> Proceed]

\* the status roleGuard answers with, or Proceed
RoleGuard(user, allowedRoles) == RoleGuardReply(user, allowedRoles).status

\* The last employee-route or auth-route request and its answer: the caller's
\* role and organization, the organization of the employee it named (NULL
\* when it named none that exists) and the status.
NoRequest ==
    [op |-> "none", role |-> "none", organization_id |-> NULL,
     target_org |-> NULL, status |-> NULL]

Answered(op, user, target_org, status) ==
    [op |-> op,
     role |-> IF user = NoRow THEN "none" ELSE (CHOOSE x \in user : TRUE).role,
     organization_id |->
        IF user = NoRow THEN NULL
        ELSE (CHOOSE x \in user : TRUE).organization_id,
     target_org |-> target_org,
     status |-> status]

\* ------------------------------------------------------------------ Init
\* A store in use: two organizations with one employee each, the admin, and
\* a manager assigned to organization 1.
SeedOrganizations ==
    { [id |-> 1, name |-> "a"], [id |-> 2, name |-> "a"] }

SeedEmployees ==
    { [id |-> 1, organization_id |-> 1, email |-> "e1", user_id |-> NoUser],
      [id |-> 2, organization_id |-> 2, email |-> "e2", user_id |-> NoUser] }

SeedProfiles ==
    { [id |-> "admin", role |-> "admin", organization_id |-> NULL],
      [id |-> "mgr", role |-> "manager", organization_id |-> 1] }

Init ==
    /\ organizations = SeedOrganizations
    /\ nextOrgId = 3
    /\ employees = SeedEmployees
    /\ profiles = SeedProfiles
    /\ attendance_records = {}
    /\ nextEmpId = 3
    /\ reqs = [s \in Slots |-> Idle]
    /\ updates = [i \in RecIds |-> 0]
    /\ last = NoRequest
    /\ tokens = {}

\* ------------------------------------------------- POST /api/attendance/checkin

\* lines 59-65: the existing record of today, .single()
CheckInExisting(e) == ProjectInOut(Single(RecordsFor(e, Today)))

\* as CheckInReply, but "already checked in" only when check_in is set
CheckInReplyOnlyCheckedIn(e) ==
    IF \E x \in CheckInExisting(e) : x.check_in # NULL
    THEN Reply(409, CheckInExisting(e))
    ELSE Reply(Proceed, NoRow)

\* lines 67-72: 409 with the existing record when there is one
CheckInReply(e) ==
    IF CheckInExisting(e) # NoRow
    THEN Reply(409, CheckInExisting(e))
    ELSE Reply(Proceed, NoRow)

\* as CheckInAfterRead, but check_in is always the server clock
CheckInAfterReadClockOnly(e, ts, now) ==
    LET reply == CheckInReply(e)
    IN  IF e = NULL THEN Response("checkin", 400)
        ELSE IF reply.status # Proceed
        THEN Response("checkin", reply.status)
        ELSE [pc |-> "write", op |-> "checkin", employee_id |-> e,
              date |-> Today, value |-> now]

\* lines 48-72: parse (400 when the body has no employee_id), compute today
\* and checkIn, read the existing record and answer 409 when there is one.
CheckInAfterRead(e, ts, now) ==
    LET checkIn == IF ts # NULL THEN ts ELSE now
        reply == CheckInReply(e)
    IN  IF e = NULL THEN Response("checkin", 400)
        ELSE IF reply.status # Proceed
        THEN Response("checkin", reply.status)
        ELSE [pc |-> "write", op |-> "checkin", employee_id |-> e,
              date |-> Today, value |-> checkIn]

CheckInRead(s, e, ts, now) ==
    /\ Free(s)
    /\ reqs' = [reqs EXCEPT ![s] = CheckInAfterRead(e, ts, now)]
    /\ UNCHANGED <<storeVars, tokens, updates, last>>

\* lines 74-86: insert; 500 on a store error, else 201 with the new row.
CheckInInsert(s) ==
    /\ reqs[s].pc = "write"
    /\ reqs[s].op = "checkin"
    /\ LET r == reqs[s]
           row == NewRecord(NextRecId(r.employee_id, r.date), r.employee_id,
                            r.date, r.value, FALSE)
       IN  IF InsertError(r.employee_id, r.date)
           THEN /\ reqs' = [reqs EXCEPT ![s] = Response("checkin", 500)]
                /\ UNCHANGED attendance_records
           ELSE /\ row.id # NULL
                /\ attendance_records' = attendance_records \cup {row}
                /\ reqs' = [reqs EXCEPT ![s] = Response("checkin", 201)]
    /\ UNCHANGED <<tokens, organizations, nextOrgId, employees, profiles, nextEmpId, updates, last>>

\* ------------------------------------------------ POST /api/attendance/checkout

\* lines 102-107: the existing record of today, .single()
CheckOutExisting(e) == ProjectInOut(Single(RecordsFor(e, Today)))

\* as CheckOutReply, without the test of existing.check_out
CheckOutReplyNoConflict(e) ==
    IF CheckOutExisting(e) = NoRow THEN Reply(404, NoRow)
    ELSE Reply(Proceed, NoRow)

\* lines 109-115: 404 when there is none, 409 with it when check_out is set
CheckOutReply(e) ==
    IF CheckOutExisting(e) = NoRow THEN Reply(404, NoRow)
    ELSE IF \E x \in CheckOutExisting(e) : x.check_out # NULL
    THEN Reply(409, CheckOutExisting(e))
    ELSE Reply(Proceed, NoRow)

\* lines 91-115: parse (400 when the body has no employee_id), compute today
\* and checkOut, read the existing record and answer 404 or 409.
CheckOutAfterRead(e, ts, now) ==
    LET checkOut == IF ts # NULL THEN ts ELSE now
        reply == CheckOutReply(e)
    IN  IF e = NULL THEN Response("checkout", 400)
        ELSE IF reply.status # Proceed
        THEN Response("checkout", reply.status)
        ELSE [pc |-> "write", op |-> "checkout", employee_id |-> e,
              date |-> Today, value |-> checkOut,
              existing |-> CheckOutExisting(e)]

CheckOutRead(s, e, ts, now) ==
    /\ Free(s)
    /\ reqs' = [reqs EXCEPT ![s] = CheckOutAfterRead(e, ts, now)]
    /\ UNCHANGED <<storeVars, tokens, updates, last>>

\* .update({ check_out }).eq('id', id): the rows as the UPDATE leaves them
UpdateCheckOut(id, checkOut) ==
    {IF r.id = id THEN [r EXCEPT !.check_out = checkOut] ELSE r :
        r \in attendance_records}

\* lines 117-125: update by id, .select().single(); 500 on an error (no row
\* has that id any more), else 200 with the updated row.
CheckOutUpdate(s) ==
    /\ reqs[s].pc = "write"
    /\ reqs[s].op = "checkout"
    /\ LET r == reqs[s]
           id == (CHOOSE x \in r.existing : TRUE).id
           data == Single({x \in UpdateCheckOut(id, r.value) : x.id = id})
       IN  /\ attendance_records' = UpdateCheckOut(id, r.value)
           /\ updates' = [updates EXCEPT ![id] =
                            IF data # NoRow THEN @ + 1 ELSE @]
           /\ reqs' = [reqs EXCEPT ![s] =
                Response("checkout", IF data = NoRow THEN 500 ELSE 200)]
    /\ UNCHANGED <<tokens, organizations, nextOrgId, employees, profiles, nextEmpId, last>>

\* -------------------------------------------------- POST /api/attendance/absent

\* line 227: the date of the request, today when it names none
AbsentDate(d) == IF d # NULL THEN d ELSE Today

\* lines 229-235: the existing record of that date, .single()
MarkAbsentExisting(e, date) == ProjectAbsent(Single(RecordsFor(e, date)))

\* as MarkAbsentReply, but a conflict only with an earlier absence
MarkAbsentReplyOnlyAbsent(e, date) ==
    IF \E x \in MarkAbsentExisting(e, date) : x.is_absent
    THEN Reply(409, MarkAbsentExisting(e, date))
    ELSE Reply(Proceed, NoRow)

\* lines 237-239: 409 with the existing record when there is one
MarkAbsentReply(e, date) ==
    IF MarkAbsentExisting(e, date) # NoRow
    THEN Reply(409, MarkAbsentExisting(e, date))
    ELSE Reply(Proceed, NoRow)

\* lines 219-239: parse (400 when the body has no employee_id), default the
\* date, read the existing record and answer 409 when there is one.
MarkAbsentAfterRead(e, d) ==
    LET reply == MarkAbsentReply(e, AbsentDate(d))
    IN  IF e = NULL THEN Response("absent", 400)
        ELSE IF reply.status # Proceed
        THEN Response("absent", reply.status)
        ELSE [pc |-> "write", op |-> "absent", employee_id |-> e,
              date |-> AbsentDate(d), value |-> NULL]

MarkAbsentRead(s, e, d) ==
    /\ Free(s)
    /\ reqs' = [reqs EXCEPT ![s] = MarkAbsentAfterRead(e, d)]
    /\ UNCHANGED <<storeVars, tokens, updates, last>>

\* lines 241-253: insert; 500 on a store error, else 201 with the new row.
MarkAbsentInsert(s) ==
    /\ reqs[s].pc = "write"
    /\ reqs[s].op = "absent"
    /\ LET r == reqs[s]
           row == NewRecord(NextRecId(r.employee_id, r.date), r.employee_id,
                            r.date, NULL, TRUE)
       IN  IF InsertError(r.employee_id, r.date)
           THEN /\ reqs' = [reqs EXCEPT ![s] = Response("absent", 500)]
                /\ UNCHANGED attendance_records
           ELSE /\ row.id # NULL
                /\ attendance_records' = attendance_records \cup {row}
                /\ reqs' = [reqs EXCEPT ![s] = Response("absent", 201)]
    /\ UNCHANGED <<tokens, organizations, nextOrgId, employees, profiles, nextEmpId, updates, last>>

\* the response is sent and the slot is free for the next request
Finish(s) ==
    /\ reqs[s].pc = "done"
    /\ reqs' = [reqs EXCEPT ![s] = Idle]
    /\ UNCHANGED <<storeVars, tokens, updates, last>>

Next ==
    \/ \E s \in Slots, e \in EmployeeIds, ts \in Times \cup {NULL} :
          \E now \in ClockWhen(ts) : CheckInRead(s, e, ts, now)
    \/ \E s \in Slots : CheckInInsert(s)
    \/ \E s \in Slots, e \in EmployeeIds, ts \in Times \cup {NULL} :
          \E now \in ClockWhen(ts) : CheckOutRead(s, e, ts, now)
    \/ \E s \in Slots : CheckOutUpdate(s)
    \/ \E s \in Slots, e \in EmployeeIds, d \in Dates \cup {NULL} :
          MarkAbsentRead(s, e, d)
    \/ \E s \in Slots : MarkAbsentInsert(s)
    \/ \E s \in Slots : Finish(s)

Spec == Init /\ [][Next]_vars

\* ===================================================== the attendance engine

TodayRecords(e) == RecordsFor(e, Today)

\* a check-in has succeeded for (e, today): only check-in inserts a record
\* that is not an absence
CheckedInToday(e) == \E r \in TodayRecords(e) : ~r.is_absent

Terminal(r) == r.is_absent \/ r.check_out # NULL

\* the step in which slot s answers `status` to a request `op`
Answers(s, op, status) ==
    /\ reqs[s].pc # "done"
    /\ reqs'[s] = Response(op, status)

\* C1: in every reachable state, under any interleaving of check-in,
\* check-out and mark-absent requests, the store holds at most one
\* attendance record per (employee_id, date).
C1_OneRecordPerEmployeeDay ==
    \A e \in EmployeeIds, d \in Dates : Cardinality(RecordsFor(e, d)) <= 1

\* Two requests raced for one key: both read "no record", one inserted and
\* the store rejected the other.
C1_Witness ==
    \E s \in Slots :
        /\ reqs[s].pc = "done"
        /\ reqs[s].op \in {"checkin", "absent"}
        /\ reqs[s].status = 500
        /\ attendance_records # {}

\* C2: the check-in whose insert the store rejects, because a concurrent
\* check-in for the same employee and day inserted first, is answered 409
\* and not 500.
C2_RaceLoserAnsweredConflict ==
    \A s \in Slots :
        (reqs[s].pc = "done" /\ reqs[s].op = "checkin") => reqs[s].status # 500

\* C3: check-in for an employee who has a record for today, of whatever kind,
\* is answered 409 with that record, and the step leaves the store as it was.
C3_CheckInConflict ==
    /\ [](\A e \in EmployeeIds :
            TodayRecords(e) # {} =>
                /\ CheckInReply(e).status = 409
                /\ \E r \in attendance_records :
                      /\ r.employee_id = e /\ r.date = Today
                      /\ CheckInReply(e).record =
                            {[id |-> r.id, check_in |-> r.check_in,
                              check_out |-> r.check_out]})
    /\ [][\A s \in Slots :
            Answers(s, "checkin", 409) => UNCHANGED <<storeVars, updates>>]_vars

\* A check-in was answered 409 and every record of today is an absence: the
\* record it met was a marked-absent one.
C3_Witness ==
    /\ \E s \in Slots : reqs[s] = Response("checkin", 409)
    /\ \E r \in attendance_records : r.date = Today
    /\ \A r \in attendance_records : r.date = Today => r.is_absent

\* C4: a check-out for an employee for whom no check-in has succeeded today
\* is answered 404 at its read: it never goes on to the update, and no
\* record of that employee carries a check_out.
C4_CheckOutBeforeCheckInNotFound ==
    /\ \A s \in Slots :
          (reqs[s].pc = "write" /\ reqs[s].op = "checkout") =>
              CheckedInToday(reqs[s].employee_id)
    /\ \A e \in EmployeeIds :
          ~CheckedInToday(e) => \A r \in TodayRecords(e) : r.check_out = NULL

\* C5: check-out for an employee whose record of today has check_out set is
\* answered 409 with that record, and the step leaves the store as it was.
C5_CheckOutConflict ==
    /\ [](\A e \in EmployeeIds :
            \A r \in TodayRecords(e) :
                r.check_out # NULL =>
                    /\ CheckOutReply(e).status = 409
                    /\ CheckOutReply(e).record =
                          {[id |-> r.id, check_in |-> r.check_in,
                            check_out |-> r.check_out]})
    /\ [][\A s \in Slots :
            Answers(s, "checkout", 409) => UNCHANGED <<storeVars, updates>>]_vars

\* A second check-out was answered 409 while the record keeps the check_out
\* the first one wrote.
C5_Witness ==
    /\ \E s \in Slots : reqs[s] = Response("checkout", 409)
    /\ \E r \in attendance_records : r.check_out # NULL /\ updates[r.id] = 1

\* C6: once a record is terminal (marked absent, or checked out) no request
\* changes or deletes it.
C6_TerminalRecordsFrozen ==
    [][\A r \in attendance_records : Terminal(r) => r \in attendance_records']_vars

\* C7: mark-absent inserts only when (employee, date) has no record, and the
\* row it inserts is an absence without check_in; when a record exists it
\* is answered 409 with it, and the store stays as it was.
C7_MarkAbsent ==
    /\ [](\A e \in EmployeeIds, d \in Dates :
            RecordsFor(e, d) # {} =>
                /\ MarkAbsentReply(e, d).status = 409
                /\ \E r \in RecordsFor(e, d) :
                      MarkAbsentReply(e, d).record =
                          {[id |-> r.id, check_in |-> r.check_in,
                            check_out |-> r.check_out,
                            is_absent |-> r.is_absent]})
    /\ [][\A s \in Slots :
            /\ Answers(s, "absent", 201) =>
                  /\ RecordsFor(reqs[s].employee_id, reqs[s].date) = {}
                  /\ \E r \in attendance_records' :
                        /\ attendance_records' = attendance_records \cup {r}
                        /\ r \notin attendance_records
                        /\ r.employee_id = reqs[s].employee_id
                        /\ r.date = reqs[s].date
                        /\ r.is_absent
                        /\ r.check_in = NULL
                        /\ r.check_out = NULL
            /\ \A st \in {409, 500} :
                  Answers(s, "absent", st) => UNCHANGED <<storeVars, updates>>]_vars

\* One mark-absent created the absence and another, for a key that has a
\* record, was answered 409.
C7_Witness ==
    /\ \E s \in Slots : reqs[s] = Response("absent", 201)
    /\ \E s \in Slots : reqs[s] = Response("absent", 409)
    /\ \E r \in attendance_records : r.is_absent /\ r.check_in = NULL

\* C8: a record receives at most one UPDATE after its creation, also when two
\* check-outs both read check_out = null.
C8_RecordUpdatedAtMostOnce ==
    \A i \in RecIds : updates[i] <= 1

\* ====================================================== the employee routes

\* the columns of an employees row that the handlers here read or filter on
EmployeeRow(id, org, email, user_id) ==
    [id |-> id, organization_id |-> org, email |-> email, user_id |-> user_id]

\* employees.organization_id REFERENCES organizations(id)
OrgForeignKeyViolation(org) == \A o \in organizations : o.id # org

\* employees.email is unique per system
EmailTaken(email) == \E e \in employees : e.email = email

\* ON DELETE CASCADE from employees to attendance_records
CascadeAttendance(empIds) ==
    {r \in attendance_records : r.employee_id \notin empIds}

\* auth.admin.createUser: an error when the email is registered already
CreateUserError(email) == \E p \in profiles : p.id = email

\* the profiles row the identity provider's trigger makes for a new user
NewProfile(email) ==
    [id |-> email, role |-> "employee", organization_id |-> NULL]

\* GET /api/employees, lines 134-143: a manager that has an organization_id
\* gets the rows of that organization, every other caller gets every row
ListEmployees(user) ==
    IF user.role = "manager" /\ user.organization_id # NULL
    THEN {e \in employees : e.organization_id = user.organization_id}
    ELSE employees

\* GET /api/employees
EmployeesList(u) ==
    /\ last' = Answered("list", Authenticate(u), NULL,
                  IF RoleGuard(Authenticate(u), {"admin", "manager"}) # Proceed
                  THEN RoleGuard(Authenticate(u), {"admin", "manager"})
                  ELSE 200)
    /\ UNCHANGED <<storeVars, tokens, reqs, updates>>

\* GET /api/employees/:id, lines 159-168: the row by id, 404 when .single()
\* finds none
EmployeeGet(u, id) ==
    /\ LET user == Authenticate(u)
           gate == RoleGuard(user, {"admin", "manager"})
           data == Single({e \in employees : e.id = id})
           target == IF data = NoRow THEN NULL
                     ELSE (CHOOSE e \in data : TRUE).organization_id
       IN  last' = Answered("get", user, target,
                      IF gate # Proceed THEN gate
                      ELSE IF data = NoRow THEN 404 ELSE 200)
    /\ UNCHANGED <<storeVars, tokens, reqs, updates>>

\* as InsertFailed, but the failure is reported as a bad request
InsertFailedBadRequest(user, org) == Answered("create", user, org, 400)

\* line 253: if (error) return res.status(500)
InsertFailed(user, org) == Answered("create", user, org, 500)

\* POST /api/employees, lines 176-255: 400 when the body does not parse (no
\* organization_id); a manager may name only its own organization (403);
\* then the auth user is created (400 when the email is taken) and the row
\* inserted (500 on a store error, the auth user stays).
EmployeeCreate(u, org, email) ==
    LET user == Authenticate(u)
        gate == RoleGuard(user, {"admin", "manager"})
        foreign == \E x \in user :
                      x.role = "manager" /\ org # x.organization_id
        row == EmployeeRow(nextEmpId, org, email, email)
    IN  IF gate # Proceed
        THEN /\ last' = Answered("create", user, org, gate)
             /\ UNCHANGED <<storeVars, tokens, reqs, updates>>
        ELSE IF org = NULL
        THEN /\ last' = Answered("create", user, org, 400)
             /\ UNCHANGED <<storeVars, tokens, reqs, updates>>
        ELSE IF foreign
        THEN /\ last' = Answered("create", user, org, 403)
             /\ UNCHANGED <<storeVars, tokens, reqs, updates>>
        ELSE IF CreateUserError(email)
        THEN /\ last' = Answered("create", user, org, 400)
             /\ UNCHANGED <<storeVars, tokens, reqs, updates>>
        ELSE IF OrgForeignKeyViolation(org) \/ EmailTaken(email)
        THEN /\ profiles' = profiles \cup {NewProfile(email)}
             /\ last' = InsertFailed(user, org)
             /\ UNCHANGED <<tokens, organizations, nextOrgId, employees, attendance_records,
                            nextEmpId, reqs, updates>>
        ELSE /\ nextEmpId <= MaxEmpId
             /\ profiles' = profiles \cup {NewProfile(email)}
             /\ employees' = employees \cup {row}
             /\ nextEmpId' = nextEmpId + 1
             /\ last' = Answered("create", user, org, 201)
             /\ UNCHANGED <<tokens, organizations, nextOrgId, attendance_records, reqs, updates>>

\* PATCH /api/employees/:id, lines 258-271: update by id; 500 when the store
\* rejects it or .single() finds no updated row.  The bodies modelled set
\* organization_id.
EmployeeUpdate(u, id, newOrg) ==
    LET user == Authenticate(u)
        gate == RoleGuard(user, {"admin", "manager"})
        data == Single({e \in employees : e.id = id})
        target == IF data = NoRow THEN NULL
                  ELSE (CHOOSE e \in data : TRUE).organization_id
        patched(e) == [e EXCEPT !.organization_id = newOrg]
        rejected == data = NoRow \/ OrgForeignKeyViolation(newOrg)
    IN  IF gate # Proceed
        THEN /\ last' = Answered("update", user, target, gate)
             /\ UNCHANGED <<storeVars, tokens, reqs, updates>>
        ELSE IF rejected
        THEN /\ last' = Answered("update", user, target, 500)
             /\ UNCHANGED <<storeVars, tokens, reqs, updates>>
        ELSE /\ employees' = {IF e.id = id THEN patched(e) ELSE e : e \in employees}
             /\ last' = Answered("update", user, target, 200)
             /\ UNCHANGED <<tokens, organizations, nextOrgId, profiles, attendance_records,
                            nextEmpId, reqs, updates>>

\* DELETE /api/employees/:id, lines 274-282: delete by id, 200 also when no
\* row has that id
EmployeeDelete(u, id) ==
    LET user == Authenticate(u)
        gate == RoleGuard(user, {"admin", "manager"})
        data == Single({e \in employees : e.id = id})
        target == IF data = NoRow THEN NULL
                  ELSE (CHOOSE e \in data : TRUE).organization_id
    IN  IF gate # Proceed
        THEN /\ last' = Answered("delete", user, target, gate)
             /\ UNCHANGED <<storeVars, tokens, reqs, updates>>
        ELSE /\ employees' = {e \in employees : e.id # id}
             /\ attendance_records' = CascadeAttendance({id})
             /\ last' = Answered("delete", user, target, 200)
             /\ UNCHANGED <<tokens, organizations, nextOrgId, profiles, nextEmpId, reqs, updates>>

\* POST /api/employees/assign-manager, lines 285-314: the profile of user_id
\* becomes a manager of organization_id (500 when the store rejects it), and
\* so does the employees row linked to that user.
AssignManager(u, target, org) ==
    LET user == Authenticate(u)
        gate == RoleGuard(user, {"admin"})
    IN  IF gate # Proceed
        THEN /\ last' = Answered("assign", user, NULL, gate)
             /\ UNCHANGED <<storeVars, tokens, reqs, updates>>
        ELSE IF OrgForeignKeyViolation(org)
        THEN /\ last' = Answered("assign", user, NULL, 500)
             /\ UNCHANGED <<storeVars, tokens, reqs, updates>>
        ELSE /\ profiles' =
                  {IF p.id = target
                   THEN [p EXCEPT !.role = "manager", !.organization_id = org]
                   ELSE p : p \in profiles}
             /\ employees' =
                  {IF e.user_id = target
                   THEN [e EXCEPT !.organization_id = org]
                   ELSE e : e \in employees}
             /\ last' = Answered("assign", user, NULL, 200)
             /\ UNCHANGED <<tokens, organizations, nextOrgId, attendance_records, nextEmpId,
                            reqs, updates>>

\* POST /api/auth/register, auth.ts lines 141-177: admins only (403); 400
\* when the body does not parse (a role outside the enum); the auth user is
\* created (400 when the email is taken) and its profile gets the role.
Register(u, email, role) ==
    LET user == Authenticate(u)
    IN  IF user = NoRow
        THEN /\ last' = Answered("register", user, NULL, 401)
             /\ UNCHANGED <<storeVars, tokens, reqs, updates>>
        ELSE IF \E x \in user : x.role # "admin"
        THEN /\ last' = Answered("register", user, NULL, 403)
             /\ UNCHANGED <<storeVars, tokens, reqs, updates>>
        ELSE IF role \notin Roles \/ CreateUserError(email)
        THEN /\ last' = Answered("register", user, NULL, 400)
             /\ UNCHANGED <<storeVars, tokens, reqs, updates>>
        ELSE /\ profiles' = profiles \cup {[NewProfile(email) EXCEPT !.role = role]}
             /\ last' = Answered("register", user, NULL, 201)
             /\ UNCHANGED <<tokens, organizations, nextOrgId, employees, attendance_records,
                            nextEmpId, reqs, updates>>

EmpIds == 1..MaxEmpId

NextAccess ==
    \/ \E u \in UserIds : EmployeesList(u)
    \/ \E u \in UserIds, id \in EmpIds : EmployeeGet(u, id)
    \/ \E u \in UserIds, org \in OrgIds, email \in {"u1", "e1"} :
          EmployeeCreate(u, org, email)
    \/ \E u \in UserIds, id \in EmpIds, newOrg \in OrgIds :
          EmployeeUpdate(u, id, newOrg)
    \/ \E u \in UserIds, id \in EmpIds : EmployeeDelete(u, id)
    \/ \E u \in UserIds, target \in UserIds, org \in OrgIds :
          AssignManager(u, target, org)
    \/ \E u \in UserIds, email \in UserIds, role \in Roles :
          Register(u, email, role)

SpecAccess == Init /\ [][NextAccess]_vars

\* --------------------------------------------------------- GET /api/attendance

\* the employees row an attendance record belongs to (the embedded resource
\* employees(...) of the select)
EmployeeOf(r) == {e \in employees : e.id = r.employee_id}

\* .eq('employees.organization_id', org) on a select that embeds employees
\* without !inner: the filter applies to the embedded resource, so a record
\* whose employee does not match stays in the result with employees: null.
EmbeddedOrgFilter(rows, org) ==
    {[r EXCEPT !.employees = {e \in @ : e.organization_id = org}] : r \in rows}

\* as OwnRecords, without the filter
OwnRecordsUnfiltered(rows, emp) == rows

\* line 27: query.eq('employee_id', emp.id)
OwnRecords(rows, emp) == {r \in rows : \E e \in emp : r.employee_id = e.id}

\* attendance routes, lines 10-44.  The filters of the request: from, to,
\* employee_id, organization_id (NULL: not given).
ListAttendance(user, from, to, employee_id, organization_id) ==
    LET all == {[id |-> r.id, employee_id |-> r.employee_id, date |-> r.date,
                 check_in |-> r.check_in, check_out |-> r.check_out,
                 is_absent |-> r.is_absent, employees |-> EmployeeOf(r)] :
                   r \in attendance_records}
        emp == Single({e \in employees : e.user_id = user.id})
        own == IF user.role = "employee" THEN OwnRecords(all, emp) ELSE all
        scoped == IF user.role = "manager" /\ user.organization_id # NULL
                  THEN EmbeddedOrgFilter(own, user.organization_id)
                  ELSE own
        since == IF from # NULL THEN {r \in scoped : r.date >= from} ELSE scoped
        until == IF to # NULL THEN {r \in since : r.date <= to} ELSE since
        byEmp == IF employee_id # NULL /\ user.role # "employee"
                 THEN {r \in until : r.employee_id = employee_id}
                 ELSE until
        byOrg == IF organization_id # NULL /\ user.role = "admin"
                 THEN EmbeddedOrgFilter(byEmp, organization_id)
                 ELSE byEmp
    IN  IF user.role = "employee" /\ emp = NoRow
        THEN Reply(404, NoRow)
        ELSE Reply(200, byOrg)

\* ========================================================= tenant isolation

\* the identities that requests can carry in this state
Callers == UNION {Authenticate(u) : u \in UserIds}

\* C9: the employee list and the attendance list a manager gets hold no row
\* of an organization other than the manager's own organization_id.
C9_ManagerListsOwnOrganization ==
    \A user \in Callers :
        user.role = "manager" =>
            /\ \A e \in ListEmployees(user) :
                  e.organization_id = user.organization_id
            /\ \A r \in ListAttendance(user, NULL, NULL, NULL, NULL).record :
                  \A e \in employees :
                      e.id = r.employee_id =>
                          e.organization_id = user.organization_id

\* C10: a manager's request to get, create, update or delete an employee of
\* an organization other than the manager's own is answered 403 and leaves
\* the store as it was.
C10_ManagerForeignEmployeeRejected ==
    [][(/\ last'.op \in {"get", "create", "update", "delete"}
        /\ last'.role = "manager"
        /\ last'.target_org # NULL
        /\ last'.target_org # last'.organization_id)
          => (last'.status = 403 /\ UNCHANGED storeVars)]_vars

\* ===================================================== bearer credentials

NoCredential == [kind |-> "none"]      \* no Authorization: Bearer header
BadCredential == [kind |-> "bad"]      \* a token that neither path verifies

\* POST /api/auth/login, auth.ts lines 24-138, for a caller who knows the
\* password: the profile by email (an identity's id is also its email); a
\* profile without organization_id takes the one of the employees row with
\* that email.  An admin gets the identity provider's access token, every
\* other role a self-signed token carrying sub, email, role and
\* organization_id.  No token (401) when there is no profile.
Login(email) ==
    LET profile == Single({p \in profiles : p.id = email})
        employee == Single({e \in employees : e.email = email})
        org(p) == IF p.organization_id # NULL THEN p.organization_id
                  ELSE IF \E e \in employee : e.organization_id # NULL
                  THEN (CHOOSE e \in employee : TRUE).organization_id
                  ELSE NULL
    IN  {IF p.role = "admin"
         THEN [kind |-> "provider", user |-> p.id]
         ELSE [kind |-> "jwt", sub |-> p.id, email |-> email,
               role |-> p.role, organization_id |-> org(p)] : p \in profile}

\* the credentials a request can carry in this state
Credentials ==
    {NoCredential, BadCredential} \cup UNION {Login(u) : u \in UserIds}

\* authenticate, auth middleware lines 31-64: a self-signed token gives the
\* identity of its payload; when the payload has no organization_id and the
\* role is not admin, the organization of the employees row with that email.
VerifyCustomJwt(c) ==
    LET emp == Single({e \in employees : e.email = c.email})
        org == IF c.organization_id = NULL /\ c.role # "admin"
                  /\ \E e \in emp : e.organization_id # NULL
               THEN (CHOOSE e \in emp : TRUE).organization_id
               ELSE c.organization_id
    IN  {[id |-> c.sub, role |-> c.role, organization_id |-> org]}

\* as AuthenticateRequest, but a token that fails verification is taken for
\* the administrator's
AuthenticateLenient(c) ==
    IF c.kind = "none" THEN NoRow
    ELSE IF c.kind = "jwt" THEN VerifyCustomJwt(c)
    ELSE Authenticate("admin")

\* authenticate, auth middleware lines 21-96: req.user, or none (401) when
\* the header is missing or neither path verifies the token
AuthenticateRequest(c) ==
    IF c.kind = "none" THEN NoRow
    ELSE IF c.kind = "jwt" THEN VerifyCustomJwt(c)
    ELSE IF c.kind = "provider" THEN Authenticate(c.user)
    ELSE NoRow

\* req.user travels with the request to the handler's later steps
WithUser(r, user) ==
    IF r.pc = "write" THEN [user |-> CHOOSE x \in user : TRUE] @@ r ELSE r

\* ================================== the attendance routes behind authenticate

\* POST /api/attendance/checkin: authenticate, then the handler
CheckIn(s, c, e, ts, now) ==
    /\ Free(s)
    /\ LET user == AuthenticateRequest(c)
       IN  reqs' = [reqs EXCEPT ![s] =
                IF user = NoRow THEN Response("checkin", 401)
                ELSE WithUser(CheckInAfterRead(e, ts, now), user)]
    /\ UNCHANGED <<storeVars, tokens, updates, last>>

\* POST /api/attendance/checkout: authenticate, then the handler
CheckOut(s, c, e, ts, now) ==
    /\ Free(s)
    /\ LET user == AuthenticateRequest(c)
       IN  reqs' = [reqs EXCEPT ![s] =
                IF user = NoRow THEN Response("checkout", 401)
                ELSE WithUser(CheckOutAfterRead(e, ts, now), user)]
    /\ UNCHANGED <<storeVars, tokens, updates, last>>

\* POST /api/attendance/absent: authenticate, roleGuard(['admin',
\* 'manager']), then the handler
MarkAbsent(s, c, e, d) ==
    /\ Free(s)
    /\ LET user == AuthenticateRequest(c)
           gate == RoleGuard(user, {"admin", "manager"})
       IN  reqs' = [reqs EXCEPT ![s] =
                IF gate # Proceed THEN Response("absent", gate)
                ELSE WithUser(MarkAbsentAfterRead(e, d), user)]
    /\ UNCHANGED <<storeVars, tokens, updates, last>>

\* A store in use: employee 1 of organization 1 and employee 2 of
\* organization 2; the admin, the manager of organization 1, and the
\* identity u1 with role employee, which is either the login of employee 1
\* (the row was created with it) or a registered user without an employees
\* row.
ScopeEmployees(link) ==
    { EmployeeRow(1, 1, IF link = NoUser THEN "e1" ELSE link, link),
      EmployeeRow(2, 2, "e2", NoUser) }

InitScope ==
    /\ organizations = SeedOrganizations
    /\ nextOrgId = 3
    /\ \E link \in {"u1", NoUser} : employees = ScopeEmployees(link)
    /\ profiles = SeedProfiles \cup {NewProfile("u1")}
    /\ attendance_records = {}
    /\ nextEmpId = 3
    /\ reqs = [s \in Slots |-> Idle]
    /\ updates = [i \in RecIds |-> 0]
    /\ last = NoRequest
    /\ tokens = {}

\* One request at a time: the scope rules are per request.
ScopeSlots == {"r1"}

NextScope ==
    \/ \E s \in ScopeSlots, c \in Credentials, e \in EmployeeIds,
          ts \in Times \cup {NULL} :
          \E now \in ClockWhen(ts) : CheckIn(s, c, e, ts, now)
    \/ \E s \in ScopeSlots : CheckInInsert(s)
    \/ \E s \in ScopeSlots, c \in Credentials, e \in EmployeeIds,
          ts \in Times \cup {NULL} :
          \E now \in ClockWhen(ts) : CheckOut(s, c, e, ts, now)
    \/ \E s \in ScopeSlots : CheckOutUpdate(s)
    \/ \E s \in ScopeSlots, c \in Credentials, e \in EmployeeIds,
          d \in Dates \cup {NULL} : MarkAbsent(s, c, e, d)
    \/ \E s \in ScopeSlots : MarkAbsentInsert(s)
    \/ \E s \in ScopeSlots : Finish(s)

SpecScope == InitScope /\ [][NextScope]_vars

\* ============================================ scope of the attendance writes

\* the employees row linked to an identity (employees.user_id)
LinkedEmployee(user) == Single({e \in employees : e.user_id = user.id})

\* the step in which the handler of slot s, past its read, does its write
Writes(s, ops) ==
    /\ reqs[s].pc = "write"
    /\ reqs[s].op \in ops
    /\ reqs'[s].pc = "done"

\* C11: a check-in or check-out request of a caller with role employee
\* creates or changes only records of the employees row linked to the
\* caller's identity, whatever employee_id its body carries.
C11_EmployeeWritesOwnRecordOnly ==
    [][\A s \in ScopeSlots :
          (Writes(s, {"checkin", "checkout"}) /\ reqs[s].user.role = "employee")
            => \A r \in attendance_records' \ attendance_records :
                  \E e \in LinkedEmployee(reqs[s].user) : r.employee_id = e.id]_vars

\* C12: a mark-absent request of a manager creates a record only for an
\* employee of the manager's own organization.
C12_ManagerMarksOwnOrganizationOnly ==
    [][\A s \in ScopeSlots :
          (Writes(s, {"absent"}) /\ reqs[s].user.role = "manager")
            => \A r \in attendance_records' \ attendance_records :
                  \E e \in employees :
                      /\ e.id = r.employee_id
                      /\ e.organization_id = reqs[s].user.organization_id]_vars

\* ------------------------------------------------ GET /api/attendance/daily

\* the rows of a select in the order the store returns them: by id
RECURSIVE OrderById(_)
OrderById(rows) ==
    IF rows = {} THEN <<>>
    ELSE LET first == CHOOSE x \in rows : \A y \in rows : x.id <= y.id
         IN  <<first>> \o OrderById(rows \ {first})

\* line 164: req.query.organization_id || (manager ? req.user.organization_id
\* : null)
RosterOrgId(user, organization_id) ==
    IF organization_id # NULL THEN organization_id
    ELSE IF user.role = "manager" THEN user.organization_id
    ELSE NULL

\* lines 163-169: the employees of that organization, all when orgId is falsy
RosterEmployees(user, organization_id) ==
    LET orgId == RosterOrgId(user, organization_id)
    IN  IF orgId # NULL
        THEN {e \in employees : e.organization_id = orgId}
        ELSE employees

\* lines 177-181: the records of today of these employees
RosterRecords(emps) ==
    {r \in attendance_records :
        r.date = Today /\ \E e \in emps : r.employee_id = e.id}

\* line 190: records?.find(r => r.employee_id === emp.id)
FindRecord(records, emp) ==
    LET found == OrderById({r \in records : r.employee_id = emp.id})
    IN  IF found = <<>> THEN NoRow ELSE {Head(found)}

\* as IsPresent, without the test of is_absent
IsPresentAnyRecord(record) == record # NoRow

\* line 200: record && !record.is_absent
IsPresent(record) == record # NoRow /\ \A r \in record : ~r.is_absent

\* lines 191-197: empData
RosterEntry(emp, record) == [id |-> emp.id, record |-> record]

\* lines 208-212: the comparator of present.sort
ComparePresent(a, b) ==
    IF a.record = NoRow \/ \E r \in a.record : r.check_in = NULL THEN 1
    ELSE IF b.record = NoRow \/ \E r \in b.record : r.check_in = NULL THEN -1
    ELSE (CHOOSE r \in b.record : TRUE).check_in
            - (CHOOSE r \in a.record : TRUE).check_in

\* Array.prototype.sort (stable) with that comparator
RECURSIVE SortPresent(_)
SortPresent(list) ==
    IF list = <<>> THEN <<>>
    ELSE LET x == Head(list)
             sorted == SortPresent(Tail(list))
             before == {i \in 1..Len(sorted) : ComparePresent(x, sorted[i]) <= 0}
             pos == IF before = {} THEN Len(sorted) + 1
                    ELSE CHOOSE i \in before : \A j \in before : i <= j
         IN  SubSeq(sorted, 1, pos - 1) \o <<x>>
                \o SubSeq(sorted, pos, Len(sorted))

\* lines 169-214: the two lists of the answer
Roster(user, organization_id) ==
    LET emps == OrderById(RosterEmployees(user, organization_id))
        records == RosterRecords(RosterEmployees(user, organization_id))
        entries == [i \in 1..Len(emps) |->
                        RosterEntry(emps[i], FindRecord(records, emps[i]))]
    IN  [present |-> SortPresent(SelectSeq(entries,
                                    LAMBDA x : IsPresent(x.record))),
         absent |-> SelectSeq(entries, LAMBDA x : ~IsPresent(x.record))]

\* GET /api/attendance/daily: authenticate, roleGuard(['admin', 'manager']),
\* then the roster
Daily(c, organization_id) ==
    LET user == AuthenticateRequest(c)
        gate == RoleGuard(user, {"admin", "manager"})
    IN  IF gate # Proceed THEN Reply(gate, NoRow)
        ELSE Reply(200, Roster(CHOOSE x \in user : TRUE, organization_id))

\* GET /api/attendance: authenticate, then the listing
AttendanceList(c, from, to, employee_id, organization_id) ==
    LET user == AuthenticateRequest(c)
    IN  IF user = NoRow THEN Reply(401, NoRow)
        ELSE ListAttendance(CHOOSE x \in user : TRUE, from, to, employee_id,
                            organization_id)

\* the elements of a list
Range(list) == {list[i] : i \in 1..Len(list)}

\* the identities of the callers that hold a credential
ScopeCallers == UNION {AuthenticateRequest(c) : c \in Credentials}

\* the organization of employee id
OrganizationOf(id) == {e.organization_id : e \in {x \in employees : x.id = id}}

\* C13: the daily roster a manager gets, whatever organization_id the query
\* carries, lists only employees of the manager's own organization.
C13_ManagerRosterOwnOrganization ==
    \A c \in Credentials, organization_id \in OrgIds \cup {NULL} :
        \A user \in AuthenticateRequest(c) :
            user.role = "manager" =>
                LET roster == Daily(c, organization_id).record
                IN  \A x \in Range(roster.present) \cup Range(roster.absent) :
                        OrganizationOf(x.id) = {user.organization_id}

\* C15: the attendance listing of a caller with role employee holds only
\* records of the employees row linked to the caller, whatever employee_id
\* or organization_id filter the request carries, and is answered 404 when
\* no employees row is linked.
C15_EmployeeListsOwnRecords ==
    \A c \in Credentials, from \in {NULL, Today}, to \in {NULL, Today},
       employee_id \in EmployeeIds \cup {NULL},
       organization_id \in OrgIds \cup {NULL} :
        \A user \in AuthenticateRequest(c) :
            user.role = "employee" =>
                LET reply == AttendanceList(c, from, to, employee_id,
                                            organization_id)
                IN  IF LinkedEmployee(user) = NoRow
                    THEN reply.status = 404 /\ reply.record = NoRow
                    ELSE /\ reply.status = 200
                         /\ \A r \in reply.record :
                               \E e \in LinkedEmployee(user) :
                                   r.employee_id = e.id

\* An employee with a linked row lists records while another employee has
\* records too, and asks for that other employee's.
C15_Witness ==
    \E c \in Credentials, user \in ScopeCallers :
        /\ user \in AuthenticateRequest(c)
        /\ user.role = "employee"
        /\ LinkedEmployee(user) # NoRow
        /\ AttendanceList(c, NULL, NULL, 2, 2).record # {}
        /\ \E r \in attendance_records :
              \A e \in LinkedEmployee(user) : r.employee_id # e.id

\* ============================ Math.round((present / total) * 100), in doubles

\* A positive double is [e, m]: e the power of two of its leading bit and m
\* its 53-bit significand as five digits, most significant first: the
\* leading bit, then four digits of 13 bits.
LimbBits == 13
Limb == 8192

RECURSIVE Pow2(_)
Pow2(k) == IF k = 0 THEN 1 ELSE 2 * Pow2(k - 1)

\* five digits with the carries taken upwards; the first keeps what is left
Carry(m) ==
    LET v5 == m[5]
        v4 == m[4] + v5 \div Limb
        v3 == m[3] + v4 \div Limb
        v2 == m[2] + v3 \div Limb
        v1 == m[1] + v2 \div Limb
    IN  <<v1, v2 % Limb, v3 % Limb, v4 % Limb, v5 % Limb>>

\* Round-to-nearest, ties-to-even: significand m of exponent e, raised by
\* one unit in the last place when up; 2^53 is the next power of two.
RoundToDouble(e, m, up) ==
    LET raised == Carry([m EXCEPT ![5] = @ + (IF up THEN 1 ELSE 0)])
    IN  IF raised[1] = 2 THEN [e |-> e + 1, m |-> <<1, 0, 0, 0, 0>>]
        ELSE [e |-> e, m |-> raised]

\* the k with t <= p * 2^k < 2t, for 0 < p <= t
RECURSIVE LeadingShift(_, _)
LeadingShift(p, t) == IF p >= t THEN 0 ELSE 1 + LeadingShift(2 * p, t)

\* p / t, 0 < p <= t: the double nearest to the quotient, by long division
DoubleDivide(p, t) ==
    LET k == LeadingShift(p, t)
        r0 == p * Pow2(k) - t
        d1 == (r0 * Limb) \div t
        r1 == (r0 * Limb) % t
        d2 == (r1 * Limb) \div t
        r2 == (r1 * Limb) % t
        d3 == (r2 * Limb) \div t
        r3 == (r2 * Limb) % t
        d4 == (r3 * Limb) \div t
        r4 == (r3 * Limb) % t
        up == 2 * r4 > t \/ (2 * r4 = t /\ d4 % 2 = 1)
    IN  RoundToDouble(-k, <<1, d1, d2, d3, d4>>, up)

\* x * 100: the exact product, then its leading 53 bits rounded
DoubleTimes100(x) ==
    LET prod == Carry([i \in 1..5 |-> 100 * x.m[i]])
        s == IF prod[1] >= 128 THEN 7 ELSE 6      \* bits beyond the 53
        low(v) == (v % Pow2(s)) * Pow2(LimbBits - s)
        q == <<prod[1] \div Pow2(s),
               low(prod[1]) + prod[2] \div Pow2(s),
               low(prod[2]) + prod[3] \div Pow2(s),
               low(prod[3]) + prod[4] \div Pow2(s),
               low(prod[4]) + prod[5] \div Pow2(s)>>
        dropped == prod[5] % Pow2(s)
        half == Pow2(s - 1)
        up == dropped > half \/ (dropped = half /\ q[5] % 2 = 1)
    IN  RoundToDouble(x.e + s, q, up)

\* Math.round of a positive double below 128: the integer part, plus one
\* when the fraction is a half or more
MathRound(x) ==
    IF x.e < -1 THEN 0
    ELSE IF x.e = -1 THEN 1
    ELSE (x.m[1] * Pow2(x.e)) + (x.m[2] \div Pow2(LimbBits - x.e))
            + ((x.m[2] \div Pow2(LimbBits - 1 - x.e)) % 2)

\* as Percentage, in exact arithmetic: floor(100 present / total + 1/2)
PercentageExact(totalPresent, totalEmployees) ==
    IF totalEmployees > 0
    THEN (200 * totalPresent + totalEmployees) \div (2 * totalEmployees)
    ELSE 0

\* line 147: totalEmployees > 0
\*               ? Math.round((totalPresent / totalEmployees) * 100) : 0
Percentage(totalPresent, totalEmployees) ==
    IF totalEmployees > 0
    THEN IF totalPresent = 0 THEN 0
         ELSE MathRound(DoubleTimes100(DoubleDivide(totalPresent,
                                                    totalEmployees)))
    ELSE 0

\* ---------------------------------------------- GET /api/attendance/summary

\* lines 132-137: the employees counted: a manager's organization, else all
SummaryEmployees(user) ==
    IF user.role = "manager" /\ user.organization_id # NULL
    THEN {e \in employees : e.organization_id = user.organization_id}
    ELSE employees

\* as PresentToday, without .in('employee_id', ...)
PresentTodayAnyEmployee(emps) ==
    {r \in attendance_records : r.date = Today}

\* lines 140-144: the records of today of these employees
PresentToday(emps) ==
    {r \in attendance_records :
        r.date = Today /\ \E e \in emps : r.employee_id = e.id}

\* lines 146-155: the answer, from the two counts
SummaryOf(totalEmployees, totalPresent) ==
    [total_employees |-> totalEmployees,
     present |-> totalPresent,
     absent |-> totalEmployees - totalPresent,
     attendance_percentage |-> Percentage(totalPresent, totalEmployees)]

\* GET /api/attendance/summary: authenticate, roleGuard(['admin',
\* 'manager']), then the counts
Summary(c) ==
    LET user == AuthenticateRequest(c)
        gate == RoleGuard(user, {"admin", "manager"})
        emps == SummaryEmployees(CHOOSE x \in user : TRUE)
    IN  IF gate # Proceed THEN Reply(gate, NoRow)
        ELSE Reply(200, SummaryOf(Cardinality(emps),
                                  Cardinality(PresentToday(emps))))

\* the employees an admin or manager answers for: a manager's organization
CallerScope(user) ==
    IF user.role = "manager"
    THEN {e \in employees : e.organization_id = user.organization_id}
    ELSE employees

\* present on `date`: a record of that day that is not an absence
PresentOn(e, date) ==
    \E r \in attendance_records :
        r.employee_id = e.id /\ r.date = date /\ ~r.is_absent

\* C18: the summary's present count is the number of employees in the
\* caller's scope with a record of today that is not an absence; every other
\* employee of the scope, marked absent or without record, counts as absent.
C18_SummaryCountsPresent ==
    \A c \in Credentials :
        \A user \in AuthenticateRequest(c) :
            user.role \in {"admin", "manager"} =>
                LET scope == CallerScope(user)
                    here == {e \in scope : PresentOn(e, Today)}
                IN  /\ Summary(c).record.present = Cardinality(here)
                    /\ Summary(c).record.absent = Cardinality(scope \ here)

\* --------------------------------------------- the percentage, on its own

MaxTotal == 40        \* employees in scope

\* the two counts of a summary
InitRound ==
    /\ organizations = SeedOrganizations
    /\ nextOrgId = 3
    /\ employees = SeedEmployees
    /\ profiles = SeedProfiles
    /\ attendance_records = {}
    /\ nextEmpId = 3
    /\ reqs = [s \in Slots |-> Idle]
    /\ updates = [i \in RecIds |-> 0]
    /\ \E total \in 0..MaxTotal, present \in 0..MaxTotal :
          /\ present <= total
          /\ last = [op |-> "counts", total_employees |-> total,
                     present |-> present]
    /\ tokens = {}

\* lines 146-155: the answer computed from the counts
SummaryRespond ==
    /\ last.op = "counts"
    /\ last' = [op |-> "summary"]
                  @@ SummaryOf(last.total_employees, last.present)
    /\ UNCHANGED <<storeVars, tokens, reqs, updates>>

NextRound == SummaryRespond

SpecRound == InitRound /\ [][NextRound]_vars

\* C19: the summary's percentage is present / total x 100 rounded to the
\* nearest integer, a tie upwards, and 0 when the scope has no employee.
C19_PercentageRoundsHalfUp ==
    last.op = "summary" =>
        last.attendance_percentage =
            PercentageExact(last.present, last.total_employees)

\* ------------------------------------------------------- the roster's lists

\* the employees a roster request asks for: those of the organization the
\* query names, else those of the manager's organization, else all
RequestedScope(user, organization_id) ==
    IF organization_id # NULL
    THEN {e \in employees : e.organization_id = organization_id}
    ELSE CallerScope(user)

\* C20: the roster places every employee of the requested scope in exactly
\* one of present and absent, in present iff the employee has a record of
\* today that is not an absence, and each entry carries the employee's
\* record of today, or null.
C20_RosterPartition ==
    \A c \in Credentials, organization_id \in OrgIds \cup {NULL} :
        \A user \in AuthenticateRequest(c) :
            user.role \in {"admin", "manager"} =>
                LET roster == Daily(c, organization_id).record
                    scope == RequestedScope(user, organization_id)
                    at(list, e) == {i \in 1..Len(list) : list[i].id = e.id}
                IN  /\ \A e \in scope :
                          /\ Cardinality(at(roster.present, e))
                                + Cardinality(at(roster.absent, e)) = 1
                          /\ at(roster.present, e) # {} <=> PresentOn(e, Today)
                          /\ \A x \in Range(roster.present)
                                        \cup Range(roster.absent) :
                                x.id = e.id => x.record = RecordsFor(e.id, Today)
                    /\ \A x \in Range(roster.present) \cup Range(roster.absent) :
                          \E e \in scope : e.id = x.id

\* The roster of all employees has one present and one marked absent.
C20_Witness ==
    \E c \in Credentials :
        /\ Daily(c, NULL).status = 200
        /\ Daily(c, NULL).record.present # <<>>
        /\ \E x \in Range(Daily(c, NULL).record.absent) :
              \E r \in x.record : r.is_absent

\* ============================================================ unauthenticated

\* the credentials no verification path accepts
Rejected == {NoCredential, BadCredential}

\* C17: a request without bearer credential, or with one that no
\* verification path accepts, is answered 401: no identity is attached, the
\* handler does not run (no data in the answer, no write pending) and the
\* store stays as it was.
C17_UnauthenticatedRejected ==
    /\ [](\A c \in Rejected :
            /\ AuthenticateRequest(c) = NoRow
            /\ \A employee_id \in EmployeeIds \cup {NULL},
                  organization_id \in OrgIds \cup {NULL} :
                  /\ AttendanceList(c, NULL, NULL, employee_id,
                                    organization_id) = Reply(401, NoRow)
                  /\ Daily(c, organization_id) = Reply(401, NoRow)
            /\ Summary(c) = Reply(401, NoRow))
    /\ [][\A s \in ScopeSlots, c \in Rejected, e \in EmployeeIds :
            /\ \A ts \in Times \cup {NULL}, now \in Times :
                  /\ CheckIn(s, c, e, ts, now) =>
                        /\ reqs'[s] = Response("checkin", 401)
                        /\ UNCHANGED <<storeVars, updates>>
                  /\ CheckOut(s, c, e, ts, now) =>
                        /\ reqs'[s] = Response("checkout", 401)
                        /\ UNCHANGED <<storeVars, updates>>
            /\ \A d \in Dates \cup {NULL} :
                  MarkAbsent(s, c, e, d) =>
                      /\ reqs'[s] = Response("absent", 401)
                      /\ UNCHANGED <<storeVars, updates>>]_vars

\* A check-in was answered 401 while the employee it named has no record.
C17_Witness ==
    /\ \E s \in ScopeSlots : reqs[s] = Response("checkin", 401)
    /\ attendance_records = {}

\* ================================================== the organization routes

MaxOrgId == 3         \* organizations ids the store hands out

OrgIdsAll == 1..MaxOrgId

\* the row of organization id, or none (.eq('id', id).single())
OrganizationById(id) == Single({o \in organizations : o.id = id})

\* ON DELETE CASCADE from organizations to employees
CascadeEmployees(orgIds) ==
    {e \in employees : e.organization_id \notin orgIds}

\* as ForeignOrganization, without the check
ForeignOrganizationNever(user, id) == FALSE

\* line 128: req.user?.role === 'manager'
\*               && req.user.organization_id !== Number(id)
\* (ids are 1 or more, so a missing organization_id differs from every id)
ForeignOrganization(user, id) ==
    \E x \in user : x.role = "manager" /\ x.organization_id # id

\* GET /api/organizations/:id, lines 124-140, past roleGuard: 403 for a
\* manager naming another organization, before the select; then the row by
\* id, 404 when .single() finds none.
OrganizationGetReply(user, id) ==
    IF ForeignOrganization(user, id)
    THEN [status |-> 403, record |-> NoRow, queried |-> FALSE]
    ELSE IF OrganizationById(id) = NoRow
    THEN [status |-> 404, record |-> NoRow, queried |-> TRUE]
    ELSE [status |-> 200, record |-> OrganizationById(id), queried |-> TRUE]

\* GET /api/organizations, lines 113-121
OrganizationsList(u) ==
    /\ LET user == Authenticate(u)
           gate == RoleGuard(user, {"admin"})
       IN  last' = Answered("orgs.list", user, NULL,
                      IF gate # Proceed THEN gate ELSE 200)
    /\ UNCHANGED <<storeVars, tokens, reqs, updates>>

\* GET /api/organizations/:id
OrganizationGet(u, id) ==
    /\ LET user == Authenticate(u)
           gate == RoleGuard(user, {"admin", "manager"})
       IN  last' = Answered("orgs.get", user, id,
                      IF gate # Proceed THEN gate
                      ELSE OrganizationGetReply(user, id).status)
    /\ UNCHANGED <<storeVars, tokens, reqs, updates>>

\* POST /api/organizations, lines 148-184: 400 when the name is empty, else
\* the row is inserted
OrganizationCreate(u, name) ==
    LET user == Authenticate(u)
        gate == RoleGuard(user, {"admin"})
    IN  IF gate # Proceed \/ name = ""
        THEN /\ last' = Answered("orgs.create", user, NULL,
                          IF gate # Proceed THEN gate ELSE 400)
             /\ UNCHANGED <<storeVars, tokens, reqs, updates>>
        ELSE /\ nextOrgId <= MaxOrgId
             /\ organizations' =
                    organizations \cup {[id |-> nextOrgId, name |-> name]}
             /\ nextOrgId' = nextOrgId + 1
             /\ last' = Answered("orgs.create", user, NULL, 201)
             /\ UNCHANGED <<tokens, employees, profiles, attendance_records,
                            nextEmpId, reqs, updates>>

\* PATCH /api/organizations/:id, lines 187-200: 400 when the name is empty;
\* update by id, 500 when .single() finds no updated row
OrganizationUpdate(u, id, name) ==
    LET user == Authenticate(u)
        gate == RoleGuard(user, {"admin"})
        status == IF gate # Proceed THEN gate
                  ELSE IF name = "" THEN 400
                  ELSE IF OrganizationById(id) = NoRow THEN 500
                  ELSE 200
    IN  /\ last' = Answered("orgs.update", user, id, status)
        /\ organizations' =
              IF status = 200
              THEN {IF o.id = id THEN [o EXCEPT !.name = name] ELSE o :
                        o \in organizations}
              ELSE organizations
        /\ UNCHANGED <<tokens, nextOrgId, employees, profiles, attendance_records,
                       nextEmpId, reqs, updates>>

\* DELETE /api/organizations/:id, lines 203-211: delete by id, 200 also when
\* no row has that id; the organization's employees and their records go
\* with it
OrganizationDelete(u, id) ==
    LET user == Authenticate(u)
        gate == RoleGuard(user, {"admin"})
    IN  IF gate # Proceed
        THEN /\ last' = Answered("orgs.delete", user, id, gate)
             /\ UNCHANGED <<storeVars, tokens, reqs, updates>>
        ELSE /\ organizations' = {o \in organizations : o.id # id}
             /\ employees' = CascadeEmployees({id})
             /\ attendance_records' =
                    CascadeAttendance({e.id : e \in
                        {x \in employees : x.organization_id = id}})
             /\ last' = Answered("orgs.delete", user, id, 200)
             /\ UNCHANGED <<tokens, nextOrgId, profiles, nextEmpId, reqs, updates>>

NextOrg ==
    \/ \E u \in UserIds : OrganizationsList(u)
    \/ \E u \in UserIds, id \in OrgIdsAll : OrganizationGet(u, id)
    \/ \E u \in UserIds, name \in {"a", ""} : OrganizationCreate(u, name)
    \/ \E u \in UserIds, id \in OrgIdsAll, name \in {"b", ""} :
          OrganizationUpdate(u, id, name)
    \/ \E u \in UserIds, id \in OrgIdsAll : OrganizationDelete(u, id)
    \/ \E u \in UserIds, target \in UserIds \ {"admin"}, org \in OrgIds :
          AssignManager(u, target, org)
    \/ \E u \in UserIds, role \in Roles : Register(u, "u1", role)

SpecOrg == Init /\ [][NextOrg]_vars

\* C14: a manager asking for an organization by id gets it only when the id
\* is the manager's own organization_id; for every other id, and for a
\* manager without organization_id, the answer is 403 and the store is not
\* queried.
C14_ManagerGetsOwnOrganizationOnly ==
    \A user \in Callers, id \in OrgIdsAll :
        user.role = "manager" =>
            LET reply == OrganizationGetReply({user}, id)
            IN  /\ RoleGuard({user}, {"admin", "manager"}) = Proceed
                /\ id # user.organization_id =>
                      reply = [status |-> 403, record |-> NoRow,
                               queried |-> FALSE]
                /\ reply.status = 200 =>
                      /\ id = user.organization_id
                      /\ reply.record = {o \in organizations : o.id = id}
                /\ (id = user.organization_id
                      /\ \E o \in organizations : o.id = id) =>
                      reply.status = 200

\* A manager without organization_id and a manager with one exist, and a
\* manager's request for an organization was answered 403.
C14_Witness ==
    /\ \E user \in Callers :
          user.role = "manager" /\ user.organization_id = NULL
    /\ \E user \in Callers :
          /\ user.role = "manager"
          /\ \E o \in organizations : o.id = user.organization_id
    /\ last.op = "orgs.get" /\ last.role = "manager" /\ last.status = 403

\* the roles roleGuard lets through to each operation of these routes
AllowedRoles(op) ==
    IF op = "orgs.get" THEN {"admin", "manager"} ELSE {"admin"}

GatedOps ==
    {"orgs.list", "orgs.get", "orgs.create", "orgs.update", "orgs.delete",
     "assign"}

\* C16: a caller whose role is not among an operation's allowed roles is
\* answered 403 with the allowed roles and the caller's role, the handler
\* does not run and the store stays as it was; only an admin lists,
\* creates, updates or deletes organizations or assigns a manager.
C16_RoleGate ==
    /\ [](\A user \in Callers, op \in GatedOps :
            user.role \notin AllowedRoles(op) =>
                RoleGuardReply({user}, AllowedRoles(op)) =
                    [status |-> 403, required |-> AllowedRoles(op),
                     yourRole |-> user.role])
    /\ [][(last'.op \in GatedOps /\ last'.role \in Roles
              /\ last'.role \notin AllowedRoles(last'.op))
            => (last'.status = 403 /\ UNCHANGED storeVars)]_vars
    /\ [][(last'.op \in GatedOps \ {"orgs.get"}
              /\ last'.status \in {200, 201})
            => last'.role = "admin"]_vars
    /\ [][organizations' # organizations => last'.role = "admin"]_vars

\* A manager's request to delete an organization was answered 403 and the
\* organization is still there.
C16_Witness ==
    /\ last.op = "orgs.delete" /\ last.role = "manager" /\ last.status = 403
    /\ \E o \in organizations : o.id = last.target_org

\* ================================= authorization and validation failures

\* the statuses of an authorization failure and of a validation failure
FailureStatuses == {400, 401, 403}

\* a role outside registerSchema's enum
NoSuchRole == "owner"

\* Requests that can fail: employee creation and registration with bodies
\* that may not parse, check-in and mark-absent with any credential and with
\* bodies that may not parse.
NextFailure ==
    \/ \E u \in UserIds, org \in OrgIds \cup {NULL}, email \in {"u1", "e1"} :
          EmployeeCreate(u, org, email)
    \/ \E u \in UserIds, role \in {"employee", NoSuchRole} :
          Register(u, "u1", role)
    \/ \E s \in ScopeSlots, c \in Credentials, e \in EmployeeIds \cup {NULL} :
          CheckIn(s, c, e, MaxTime, MaxTime)
    \/ \E s \in ScopeSlots : CheckInInsert(s)
    \/ \E s \in ScopeSlots, c \in Credentials, e \in EmployeeIds \cup {NULL} :
          MarkAbsent(s, c, e, NULL)
    \/ \E s \in ScopeSlots : MarkAbsentInsert(s)
    \/ \E s \in ScopeSlots : Finish(s)

SpecFailure == Init /\ [][NextFailure]_vars

\* C21: a request answered 401, 403 or 400 leaves every table of the store,
\* and the identity provider's users (their profiles), as they were before
\* the request.
C21_FailuresLeaveStoreUnchanged ==
    [][/\ \A u \in UserIds, org \in OrgIds \cup {NULL}, email \in {"u1", "e1"} :
            (EmployeeCreate(u, org, email) /\ last'.status \in FailureStatuses)
                => UNCHANGED storeVars
       /\ \A u \in UserIds, role \in {"employee", NoSuchRole} :
            (Register(u, "u1", role) /\ last'.status \in FailureStatuses)
                => UNCHANGED storeVars
       /\ \A s \in ScopeSlots, op \in {"checkin", "absent"},
             status \in FailureStatuses :
            Answers(s, op, status) => UNCHANGED storeVars]_vars

\* An employee creation was answered 400 because the email has a login
\* already, after a creation that succeeded, and a check-in whose body does
\* not parse was answered 400.
C21_Witness ==
    /\ last.op = "create" /\ last.status = 400 /\ last.target_org # NULL
    /\ \E e \in employees : e.user_id = "u1"
    /\ reqs["r1"] = Response("checkin", 400)

\* ==================================================== check-in, the new record

\* C22: a check-in for an employee without record of today goes on to its
\* insert with check_in the supplied timestamp, or the clock's reading when
\* none is supplied; the insert, when the employee still has no record of
\* today, is answered 201 and adds exactly one record, of that employee and
\* today, with that check_in, check_out null and is_absent false.
C22_CheckInCreatesRecord ==
    /\ [](\A e \in EmployeeIds, ts \in Times \cup {NULL}, now \in Times :
            TodayRecords(e) = {} =>
                CheckInAfterRead(e, ts, now) =
                    [pc |-> "write", op |-> "checkin", employee_id |-> e,
                     date |-> Today,
                     value |-> IF ts # NULL THEN ts ELSE now])
    /\ [][\A s \in Slots :
            (Writes(s, {"checkin"}) /\ TodayRecords(reqs[s].employee_id) = {})
              => /\ reqs'[s] = Response("checkin", 201)
                 /\ \E r \in attendance_records' :
                       /\ r \notin attendance_records
                       /\ attendance_records' = attendance_records \cup {r}
                       /\ r.employee_id = reqs[s].employee_id
                       /\ r.date = Today
                       /\ r.check_in = reqs[s].value
                       /\ r.check_out = NULL
                       /\ ~r.is_absent]_vars

\* A check-in was answered 201 and the record carries a timestamp other than
\* the latest reading of the clock.
C22_Witness ==
    /\ \E s \in Slots : reqs[s] = Response("checkin", 201)
    /\ \E r \in attendance_records :
          ~r.is_absent /\ r.check_in # NULL /\ r.check_in < MaxTime
          /\ r.check_out = NULL

\* C23: every record that has check_in and check_out has its check_out
\* later than its check_in, whatever timestamps the requests supplied.
C23_CheckOutAfterCheckIn ==
    \A r \in attendance_records :
        (r.check_in # NULL /\ r.check_out # NULL) => r.check_out > r.check_in

\* ======================================================= owned lifetimes

\* Deletions of organizations and employees, creation, update and
\* assign-manager, and check-ins (for any employee id, with or without a
\* row) that may meet them between read and insert.
Staff == {"admin", "mgr"}

NextLifetime ==
    \/ \E u \in Staff, id \in OrgIds : OrganizationDelete(u, id)
    \/ \E u \in Staff, id \in EmpIds : EmployeeDelete(u, id)
    \/ \E u \in Staff, org \in OrgIds : EmployeeCreate(u, org, "u1")
    \/ \E u \in Staff, id \in EmpIds, newOrg \in OrgIds :
          EmployeeUpdate(u, id, newOrg)
    \/ \E u \in Staff, target \in {"mgr", "u1"}, org \in OrgIds :
          AssignManager(u, target, org)
    \/ \E s \in ScopeSlots, e \in EmpIds : CheckInRead(s, e, MaxTime, MaxTime)
    \/ \E s \in ScopeSlots : CheckInInsert(s)
    \/ \E s \in ScopeSlots : Finish(s)

SpecLifetime == Init /\ [][NextLifetime]_vars

\* C24: in every reachable state each employee's organization_id names an
\* existing organization and each attendance record's employee_id names an
\* existing employee, also after an organization or an employee is deleted.
C24_NoDanglingReference ==
    /\ \A e \in employees : \E o \in organizations : o.id = e.organization_id
    /\ \A r \in attendance_records : \E e \in employees : e.id = r.employee_id

\* Organization 1 was deleted and its employee went with it; a check-in that
\* had read before the deletion was refused at its insert, and the record of
\* another employee remains.
C24_Witness ==
    /\ last.op = "orgs.delete" /\ last.status = 200 /\ last.target_org = 1
    /\ \A e \in employees : e.id # 1
    /\ reqs["r1"] = Response("checkin", 500)
    /\ attendance_records # {}

\* C25: no request moves an existing employees row from one organization
\* to another: a row that is there before and after a step keeps its
\* organization_id.
C25_EmployeeKeepsOrganization ==
    [][\A e \in employees, f \in employees' :
          e.id = f.id => f.organization_id = e.organization_id]_vars

\* ================================================= identities over time

\* the accounts that log in: the manager, and the identity registered for
\* the email of employee 1
Accounts == {"mgr", "e1"}

\* the user a token was issued to
Holder(c) ==
    IF c.kind = "jwt" THEN c.sub
    ELSE IF c.kind = "provider" THEN c.user
    ELSE NoUser

\* POST /api/auth/login: the client keeps the token of its last login
LoginRequest(email) ==
    /\ tokens' = IF Login(email) = {} THEN tokens
                 ELSE {c \in tokens : Holder(c) # email} \cup Login(email)
    /\ last' = Answered("login", NoRow, NULL,
                        IF Login(email) = {} THEN 401 ELSE 200)
    /\ UNCHANGED <<storeVars, reqs, updates>>

\* GET /api/auth/me, auth.ts lines 180-182: authenticate, then req.user
Me(c) ==
    /\ LET user == AuthenticateRequest(c)
       IN  last' = Answered("me", user, NULL,
                            IF user = NoRow THEN 401 ELSE 200)
    /\ UNCHANGED <<storeVars, tokens, reqs, updates>>

NextIdentity ==
    \/ \E email \in Accounts : LoginRequest(email)
    \/ \E c \in tokens \cup Rejected : Me(c)
    \/ \E u \in Staff, target \in Accounts, org \in OrgIds :
          AssignManager(u, target, org)
    \/ \E u \in Staff, id \in EmployeeIds, newOrg \in OrgIds :
          EmployeeUpdate(u, id, newOrg)
    \/ \E u \in Staff, role \in Roles : Register(u, "e1", role)

SpecIdentity == Init /\ [][NextIdentity]_vars

\* the identity under which the requests of account u are authorized once u
\* has logged in: none while u has no login
Identity(u) == UNION {AuthenticateRequest(c) : c \in Login(u)}

\* C26: the role and organization_id under which an existing identity's
\* requests are authorized change only in the step of a successful
\* assign-manager; no employee update, login or registration alters them.
C26_IdentityChangesOnlyByAssignManager ==
    [][\A u \in Accounts :
          (Identity(u) # {} /\ Identity(u)' # Identity(u))
            => (last'.op = "assign" /\ last'.status = 200)]_vars

\* C27: after a successful assign-manager for a user, the identity that
\* authenticate derives from a token that user holds, also one issued before
\* the change, has role manager and the assigned organization.
C27_StaleTokenSeesNewRole ==
    [][\A u \in Staff, target \in Accounts, org \in OrgIds :
          (AssignManager(u, target, org) /\ last'.status = 200) =>
              \A c \in tokens :
                  Holder(c) = target =>
                      AuthenticateRequest(c)' =
                          {[id |-> target, role |-> "manager",
                            organization_id |-> org]}]_vars

\* ===================================================== the summary's numbers

\* C28: for every caller the summary is answered to, 0 <= present <=
\* total_employees, absent = total_employees - present >= 0 and
\* 0 <= attendance_percentage <= 100.
C28_SummaryWithinBounds ==
    \A c \in Credentials :
        LET summary == Summary(c).record
        IN  Summary(c).status = 200 =>
                /\ 0 <= summary.present
                /\ summary.present <= summary.total_employees
                /\ summary.absent = summary.total_employees - summary.present
                /\ summary.absent >= 0
                /\ 0 <= summary.attendance_percentage
                /\ summary.attendance_percentage <= 100

\* Every employee has a record of today, one of them an absence, and a
\* manager's summary counts fewer employees than the admin's.
C28_Witness ==
    /\ \E c \in Credentials :
          /\ Summary(c).status = 200
          /\ Summary(c).record.present = Cardinality(employees)
          /\ Summary(c).record.attendance_percentage = 100
    /\ \E c \in Credentials :
          /\ Summary(c).status = 200
          /\ Summary(c).record.total_employees < Cardinality(employees)
    /\ \E r \in attendance_records : r.date = Today /\ r.is_absent

\* C29: in one state and for one caller, the summary and the roster (asked
\* without organization_id, so for the caller's own scope) agree: the
\* summary's present is the length of the roster's present list and its
\* absent the length of the roster's absent list.
C29_SummaryAgreesWithRoster ==
    \A c \in Credentials :
        Summary(c).status = 200 =>
            /\ Daily(c, NULL).status = 200
            /\ Summary(c).record.present = Len(Daily(c, NULL).record.present)
            /\ Summary(c).record.absent = Len(Daily(c, NULL).record.absent)

\* C30: an employee creation that is answered with an error has added
\* neither an employees row nor a login identity (with its profile) for the
\* email, so the same request can be tried again.
C30_EmployeeCreateAllOrNothing ==
    [][\A u \in UserIds, org \in OrgIds, email \in {"u1", "e1"} :
          (EmployeeCreate(u, org, email) /\ last'.status # 201) =>
              /\ employees' = employees
              /\ profiles' = profiles
              /\ CreateUserError(email)' = CreateUserError(email)]_vars

====
